---- MODULE Spec2Model ----
(***************************************************************************)
(* GlamAI: the upload / analyze-and-recommend flow.                        *)
(*                                                                         *)
(*  - backend (backend/main.py as given in DEPLOYMENT_GUIDE.md): the       *)
(*    uploads directory, the analyze_and_recommend handler and the         *)
(*    periodic_cleanup task.  The handler and the sweep are coroutines of  *)
(*    one asyncio event loop (uvicorn, one worker): code between two       *)
(*    awaits is one atomic step.                                           *)
(*  - frontend: services/api.js (axios instance, response interceptor,     *)
(*    retryRequest, analyzeAndRecommend), FileUpload.jsx and App.jsx.      *)
(***************************************************************************)
EXTENDS Integers, Sequences, FiniteSets, TLC

\* ------------------------------------------------------------- bounds
\* calls of FileUpload.handleFileUpload (and so the files the backend stores)
MaxUploads == 2
\* calls of App.handleAnalyze
MaxAnalyzes == 2
\* requests that reach the analyze_and_recommend handler
MaxRequests == 2
\* seconds that pass in one step of the clock
TickStep == 300
\* largest `retries` argument tried on retryRequest
MaxRetriesArg == 3

\* -------------------------------------------------- program constants
\* periodic_cleanup: files older than 300 s are removed
CleanupAge == 300
\* periodic_cleanup: asyncio.sleep(300) between two passes
SweepInterval == 300
\* retryRequest's default arguments
DefaultRetries == 2
DefaultDelay == 2000
\* validateFile: const maxSize = 10 * 1024 * 1024
maxSize == 10 * 1024 * 1024

\* ------------------------------------------------------------- values
\* JavaScript null / undefined and the values the backend computes
Null == [kind |-> "null", of |-> 0]
Undefined == [kind |-> "undefined", of |-> 0]
AnalysisOf(id) == [kind |-> "analysis", of |-> id]
RecommendationsOf(a) == [kind |-> "recommendations", of |-> a.of]
Truthy(v) == v.kind \notin {"null", "undefined"}

\* a string state that holds null, and the empty (falsy) string
NullStr == "<null>"
UndefStr == "<undefined>"
StrTruthy(s) == s \notin {NullStr, UndefStr, ""}

\* file ids: 0 stands for null, the backend generates 1, 2, ...
NoId == 0
FileIds == 1..MaxUploads

\* MIME types are strings: sequences of characters
ImagePrefix == <<"i", "m", "a", "g", "e", "/">>
TypePng == ImagePrefix \o <<"p", "n", "g">>
TypeText == <<"t", "e", "x", "t", "/", "p", "l", "a", "i", "n">>
MimeTypes == {TypePng, TypeText}
\* sizes on both sides of the limit
FileSizes == {maxSize, maxSize + 1}
Files == [type : MimeTypes, size : FileSizes]
NoFile == [type |-> <<>>, size |-> -1]

\* String.prototype.startsWith
startsWith(s, p) == Len(s) >= Len(p) /\ SubSeq(s, 1, Len(p)) = p

VARIABLES
    \* backend
    uploads,       \* the uploads directory: file id |-> seconds since the file
                   \* was written (time.time() - os.path.getmtime)
    nextId,        \* the next file id /upload generates
    sweepTimer,    \* seconds since periodic_cleanup went to sleep
    reqs,          \* the analyze_and_recommend calls, in order of arrival
    cleanupErrors, \* tasks in which os.remove / getmtime raised on a missing file
    raced,         \* files the sweep removed while a request for them was running
    \* frontend: App
    uploadedFile, fileId, analysisData, recommendations, loading, error, currentStep,
    \* frontend: FileUpload
    uploading, fuError,
    \* frontend: calls in progress and finished
    fuCalls,       \* the calls of FileUpload.handleFileUpload
    anCalls,       \* the calls of App.handleAnalyze (each runs retryRequest)
    lastResult,    \* the value analyzeAndRecommend last resolved with
    \* retryRequest applied to an arbitrary fn (specification SpecRetry)
    rq,
    \* deploy.sh: the repository it runs in and its runs (specification SpecDeploy)
    sh,
    \* one ImagePreview instance and its object URLs (specification SpecPreview)
    pv

backendVars == <<uploads, nextId, sweepTimer, reqs, cleanupErrors, raced>>
frontVars == <<uploadedFile, fileId, analysisData, recommendations, loading, error,
               currentStep, uploading, fuError, fuCalls, anCalls, lastResult>>
appVars == <<uploadedFile, fileId, analysisData, recommendations, loading, error, currentStep>>
fuVars == <<uploading, fuError>>
vars == <<uploads, nextId, sweepTimer, reqs, cleanupErrors, raced,
          uploadedFile, fileId, analysisData, recommendations, loading, error,
          currentStep, uploading, fuError, fuCalls, anCalls, lastResult, rq, sh, pv>>

\* ======================================================== the backend

\* the files that exist in uploads/
disk == DOMAIN uploads
Restrict(f, S) == [x \in S |-> f[x]]

\* os.path.exists(path)
OsPathExists(d, path) == path \in DOMAIN d

\* os.remove(path): removes the file, raises FileNotFoundError when it is gone
OsRemove(d, path) ==
    [dir |-> Restrict(d, DOMAIN d \ {path}), raised |-> path \notin DOMAIN d]

\* the handler's finally block: remove temp_path if it exists; an error of
\* os.remove is caught and printed
\* (mutants: os.remove without the os.path.exists test and outside try; no removal)
FinallyNoExistsCheck(d, temp_path) == OsRemove(d, temp_path)
FinallyKeepsFile(d, temp_path) == [dir |-> d, raised |-> FALSE]
FinallyCleanup(d, temp_path) ==
    IF temp_path # NoId /\ OsPathExists(d, temp_path)
    THEN OsRemove(d, temp_path)
    ELSE [dir |-> d, raised |-> FALSE]

\* the bodies the handler returns
\* (mutant: the success body without its recommendations)
SuccessBodyNoRecommendations(a, r) ==
    [status |-> "success", analysis |-> a, recommendations |-> Undefined, error |-> UndefStr]
SuccessBody(a, r) ==
    [status |-> "success", analysis |-> a, recommendations |-> r, error |-> UndefStr]
ErrorBody(e) ==
    [status |-> "error", analysis |-> Undefined, recommendations |-> Undefined, error |-> e]
NoBody ==
    [status |-> "none", analysis |-> Undefined, recommendations |-> Undefined, error |-> UndefStr]

\* except Exception as e: return {"error": str(e), "status": "error"}
\* (mutant: no except clause, the exception leaves the handler)
ExceptPropagates(e) == [outcome |-> "raised", body |-> NoBody]
ExceptClause(e) == [outcome |-> "returned", body |-> ErrorBody(e)]

\* one call of analyze_and_recommend(file_id), made for attempt `call` of the client
NewRequest(id, call) ==
    [file_id |-> id, pc |-> "analyze_face", read |-> FALSE, raisedIn |-> "none",
     analysis |-> Undefined, outcome |-> "running", body |-> NoBody, call |-> call]

Running(r) == reqs[r].pc # "done"
RequestsOf(f) == {r \in DOMAIN reqs : reqs[r].file_id = f}

\* (mutant: the cleanup runs on the success path only)
HandlerRaiseNoFinally(r, where, e, didRead) ==
    LET ex == ExceptClause(e)
    IN  /\ reqs' = [reqs EXCEPT ![r].pc = "done", ![r].raisedIn = where,
                                ![r].read = didRead,
                                ![r].outcome = ex.outcome, ![r].body = ex.body]
        /\ UNCHANGED <<uploads, cleanupErrors>>

\* the handler leaves through except and finally, in one step after the await
\* that raised
HandlerRaise(r, where, e, didRead) ==
    LET ex == ExceptClause(e)
        fin == FinallyCleanup(uploads, reqs[r].file_id)
    IN  /\ reqs' = [reqs EXCEPT ![r].pc = "done", ![r].raisedIn = where,
                                ![r].read = didRead,
                                ![r].outcome = ex.outcome, ![r].body = ex.body]
        /\ uploads' = fin.dir
        /\ cleanupErrors' = IF fin.raised THEN cleanupErrors \cup {"handler"}
                            ELSE cleanupErrors

\* analysis_result = await face_analyzer.analyze_face(temp_path): reads the file
AnalyzeFaceOk(r) ==
    /\ reqs[r].pc = "analyze_face"
    /\ OsPathExists(uploads, reqs[r].file_id)
    /\ reqs' = [reqs EXCEPT ![r].pc = "get_recommendations", ![r].read = TRUE,
                            ![r].analysis = AnalysisOf(reqs[r].file_id)]
    /\ UNCHANGED <<uploads, nextId, sweepTimer, cleanupErrors, raced, frontVars, rq, sh, pv>>

\* analyze_face raises: the file is missing, or it was read and shows no face
AnalyzeFaceRaise(r) ==
    /\ reqs[r].pc = "analyze_face"
    /\ IF OsPathExists(uploads, reqs[r].file_id)
       THEN HandlerRaise(r, "analysis", "No face detected", TRUE)
       ELSE HandlerRaise(r, "analysis", "File not found", FALSE)
    /\ UNCHANGED <<nextId, sweepTimer, raced, frontVars, rq, sh, pv>>

\* (mutant: the success path returns without the finally block)
GetRecommendationsOkNoFinally(r) ==
    /\ reqs[r].pc = "get_recommendations"
    /\ reqs' = [reqs EXCEPT ![r].pc = "done", ![r].outcome = "returned",
                  ![r].body = SuccessBody(reqs[r].analysis,
                                          RecommendationsOf(reqs[r].analysis))]
    /\ UNCHANGED <<uploads, cleanupErrors, nextId, sweepTimer, raced, frontVars, rq, sh, pv>>

\* recommendations = await claude_client.get_recommendations(analysis_result);
\* return {"analysis": ..., "recommendations": ..., "status": "success"}; finally
GetRecommendationsOk(r) ==
    /\ reqs[r].pc = "get_recommendations"
    /\ LET fin == FinallyCleanup(uploads, reqs[r].file_id)
       IN  /\ reqs' = [reqs EXCEPT ![r].pc = "done", ![r].outcome = "returned",
                         ![r].body = SuccessBody(reqs[r].analysis,
                                                 RecommendationsOf(reqs[r].analysis))]
           /\ uploads' = fin.dir
           /\ cleanupErrors' = IF fin.raised THEN cleanupErrors \cup {"handler"}
                               ELSE cleanupErrors
    /\ UNCHANGED <<nextId, sweepTimer, raced, frontVars, rq, sh, pv>>

GetRecommendationsRaise(r) ==
    /\ reqs[r].pc = "get_recommendations"
    /\ HandlerRaise(r, "recommendations", "Claude API error", reqs[r].read)
    /\ UNCHANGED <<nextId, sweepTimer, raced, frontVars, rq, sh, pv>>

\* periodic_cleanup: os.path.getmtime(file_path) < time.time() - 300
IsStale(d, f) == d[f] > CleanupAge

\* one pass of the loop body over os.listdir(uploads_dir); the pass has no await,
\* so the listing is the directory itself
\* (mutants: the pass removes nothing; it removes the files of age 300 s too)
SweepRemovesNothing(d) == [dir |-> d, raised |-> FALSE]
SweepPassAtLimit(d) ==
    [dir |-> Restrict(d, {f \in DOMAIN d : d[f] < CleanupAge}), raised |-> FALSE]
SweepPass(d) ==
    LET stale == {f \in DOMAIN d : IsStale(d, f)}
    IN  [dir |-> Restrict(d, DOMAIN d \ stale), raised |-> FALSE]

\* while True: <pass>; await asyncio.sleep(300)
PeriodicCleanup ==
    /\ sweepTimer >= SweepInterval
    /\ LET pass == SweepPass(uploads)
           gone == DOMAIN uploads \ DOMAIN pass.dir
       IN  /\ uploads' = pass.dir
           /\ raced' = raced \cup {f \in gone : \E r \in RequestsOf(f) : Running(r)}
           /\ cleanupErrors' = IF pass.raised THEN cleanupErrors \cup {"sweep"}
                               ELSE cleanupErrors
    /\ sweepTimer' = 0
    /\ UNCHANGED <<nextId, reqs, frontVars, rq, sh, pv>>

\* TickStep seconds pass; ages and the timer stop counting once past their limit
Tick ==
    /\ uploads' = [f \in DOMAIN uploads |->
                     IF uploads[f] > CleanupAge THEN uploads[f] ELSE uploads[f] + TickStep]
    /\ sweepTimer' = IF sweepTimer >= SweepInterval THEN sweepTimer
                     ELSE sweepTimer + TickStep
    /\ UNCHANGED <<nextId, reqs, cleanupErrors, raced, frontVars, rq, sh, pv>>

\* ============================================= frontend: services/api.js

\* an error as axios rejects with it: the response's status (0: no response), the
\* code, the response body's detail ("" when there is none) and the message
Err(status, code, detail, message) ==
    [status |-> status, code |-> code, detail |-> detail, message |-> message]
NoErr == Err(0, "", "", "")
ErrNetwork == Err(0, "ERR_NETWORK", "", "Network Error")
ErrTimeout == Err(0, "ECONNABORTED", "", "timeout of 30000ms exceeded")

\* new Error(message): no response, no code
NewError(message) == Err(0, "", "", message)

Msg404 == "Service not found. Please check if the backend is running."
Msg500 == "Internal server error. Please try again later."
MsgTimeout == "Request timeout. The server may be starting up (cold start). Please wait 30 seconds and try again."
MsgNetwork == "Network error. Please check your connection and ensure the backend is running."
MsgUnexpected == "An unexpected error occurred"

\* api.interceptors.response, the error handler: what it throws for `e`
\* (mutant: the response body's detail is looked at before the status)
InterceptorDetailFirst(e) ==
    IF e.detail # "" THEN NewError(e.detail)
    ELSE IF e.status = 404 THEN NewError(Msg404)
    ELSE IF e.status = 500 THEN NewError(Msg500)
    ELSE IF e.code = "ECONNABORTED" THEN NewError(MsgTimeout)
    ELSE IF e.code = "ERR_NETWORK" THEN NewError(MsgNetwork)
    ELSE NewError(IF e.message # "" THEN e.message ELSE MsgUnexpected)
Interceptor(e) ==
    IF e.status = 404 THEN NewError(Msg404)
    ELSE IF e.status = 500 THEN NewError(Msg500)
    ELSE IF e.code = "ECONNABORTED" THEN NewError(MsgTimeout)
    ELSE IF e.code = "ERR_NETWORK" THEN NewError(MsgNetwork)
    ELSE NewError(IF e.detail # "" THEN e.detail
                  ELSE IF e.message # "" THEN e.message
                  ELSE MsgUnexpected)

\* retryRequest(fn, retries, delay) is entered: fn() is called at once
RetryEnter(st, retries, delay) ==
    [st EXCEPT !.pc = "pending", !.retries = retries, !.delay = delay,
               !.calls = @ + 1]

\* the catch block: retry after `delay` ms, or rethrow
\* (mutant: every error is retried while retries are left)
RetryCatchRetriesAnyError(st, e) ==
    IF st.retries > 0
    THEN [st EXCEPT !.pc = "wait"]
    ELSE [st EXCEPT !.pc = "rejected", !.err = e]
RetryCatch(st, e) ==
    IF st.retries > 0 /\ (e.code = "ERR_NETWORK" \/ e.code = "ECONNABORTED")
    THEN [st EXCEPT !.pc = "wait"]
    ELSE [st EXCEPT !.pc = "rejected", !.err = e]

\* setTimeout(resolve, delay) fired: return retryRequest(fn, retries - 1, delay * 1.5)
\* (mutants: the delay is doubled; retries is passed on as it is)
RetryRecurseDoubles(st) ==
    RetryEnter([st EXCEPT !.waited = Append(@, st.delay)], st.retries - 1, st.delay * 2)
RetryRecurseKeepsRetries(st) ==
    RetryEnter([st EXCEPT !.waited = Append(@, st.delay)],
               st.retries, (st.delay * 3) \div 2)
RetryRecurse(st) ==
    RetryEnter([st EXCEPT !.waited = Append(@, st.delay)],
               st.retries - 1, (st.delay * 3) \div 2)

\* the state of one retryRequest call before it is entered
RetryIdle ==
    [pc |-> "idle", retries |-> 0, delay |-> 0, calls |-> 0, waited |-> <<>>,
     err |-> NoErr]

\* ---- retryRequest(fn, retries, delay) for an arbitrary fn: rq is the call's
\* state, with the arguments it was given and the outcome of every fn() so far

\* what one call of fn may reject with
ErrHttp500 == Err(500, "ERR_BAD_RESPONSE", "", "Request failed with status code 500")
ErrHttp404 == Err(404, "ERR_BAD_REQUEST", "Not Found", "Request failed with status code 404")
FnErrors == {ErrNetwork, ErrTimeout, ErrHttp500, ErrHttp404, NewError("fn failed")}
\* the entry of the log for a call of fn that resolved
FnOk == Err(200, "", "", "ok")

RetryArgs == [retries : 0..MaxRetriesArg, delay : {DefaultDelay, 2 * DefaultDelay}]

RqEntered(args) ==
    RetryEnter(RetryIdle @@ [args |-> args, log |-> <<>>], args.retries, args.delay)

\* fn() resolves: return await fn()
RqFnResolves ==
    /\ rq.pc = "pending"
    /\ rq' = [rq EXCEPT !.pc = "resolved", !.log = Append(@, FnOk)]
    /\ UNCHANGED <<backendVars, frontVars, sh, pv>>

\* fn() rejects with e: the catch block
RqFnRejects(e) ==
    /\ rq.pc = "pending"
    /\ rq' = RetryCatch([rq EXCEPT !.log = Append(@, e)], e)
    /\ UNCHANGED <<backendVars, frontVars, sh, pv>>

\* the timer of `delay` ms fires: the recursive call
RqTimerFires ==
    /\ rq.pc = "wait"
    /\ rq' = RetryRecurse(rq)
    /\ UNCHANGED <<backendVars, frontVars, sh, pv>>

\* ---- retryRequest(() => api.post(...)), as uploadFile and analyzeAndRecommend
\* call it: what fn rejects with has gone through the response interceptor

\* the errors axios may hand to the interceptor: with a response (status, and
\* maybe a detail in its body) or without one (status 0), with any code
AxiosErrors ==
    [status : {0, 400, 404, 500},
     code : {"", "ECONNABORTED", "ERR_NETWORK", "ERR_BAD_REQUEST"},
     detail : {"", "File not found"},
     message : {"", "Request failed"}]

\* the request fails with the axios error e: the interceptor rejects with what
\* it makes of e, the catch block of retryRequest gets that
RqApiRejects(e) ==
    /\ rq.pc = "pending"
    /\ rq' = RetryCatch([rq EXCEPT !.log = Append(@, e)], Interceptor(e))
    /\ UNCHANGED <<backendVars, frontVars, sh, pv>>

\* ============================================= frontend: FileUpload.jsx

MsgNotImage == "Please select an image file"
MsgTooLarge == "File size must be less than 10MB"

\* validateFile(file): "" when it returns true, else the message of the Error thrown
\* (mutant: the size is not checked)
validateFileNoSizeCheck(file) ==
    IF ~startsWith(file.type, ImagePrefix) THEN MsgNotImage ELSE ""
validateFile(file) ==
    IF ~startsWith(file.type, ImagePrefix) THEN MsgNotImage
    ELSE IF file.size > maxSize THEN MsgTooLarge
    ELSE ""

\* the FileUpload instance is unmounted: its pending calls set state on nothing
Unmounted(calls) == [i \in DOMAIN calls |-> [calls[i] EXCEPT !.live = FALSE]]

\* handleFileUpload(file), validateFile throws: catch, finally
HandleFileUploadInvalid(file) ==
    /\ currentStep = "upload"
    /\ Len(fuCalls) < MaxUploads
    /\ validateFile(file) # ""
    /\ fuError' = validateFile(file)
    /\ uploading' = FALSE
    /\ fuCalls' = Append(fuCalls,
           [file |-> file, pc |-> "done", file_id |-> NoId, live |-> TRUE,
            posted |-> FALSE, notified |-> 0, err |-> validateFile(file)])
    /\ UNCHANGED <<backendVars, appVars, anCalls, lastResult, rq, sh, pv>>

\* handleFileUpload(file) up to await uploadFile(file): api.post('/upload', formData)
HandleFileUploadValid(file) ==
    /\ currentStep = "upload"
    /\ Len(fuCalls) < MaxUploads
    /\ validateFile(file) = ""
    /\ uploading' = TRUE
    /\ fuError' = NullStr
    /\ fuCalls' = Append(fuCalls,
           [file |-> file, pc |-> "posting", file_id |-> NoId, live |-> TRUE,
            posted |-> TRUE, notified |-> 0, err |-> NullStr])
    /\ UNCHANGED <<backendVars, appVars, anCalls, lastResult, rq, sh, pv>>

\* POST /upload on the backend: the file is written under a generated identifier
UploadStore(i) ==
    /\ fuCalls[i].pc = "posting"
    /\ nextId \in FileIds
    /\ uploads' = [f \in DOMAIN uploads \cup {nextId} |->
                     IF f = nextId THEN 0 ELSE uploads[f]]
    /\ nextId' = nextId + 1
    /\ fuCalls' = [fuCalls EXCEPT ![i].pc = "stored", ![i].file_id = nextId]
    /\ UNCHANGED <<sweepTimer, reqs, cleanupErrors, raced, appVars, fuVars,
                   anCalls, lastResult, rq, sh, pv>>

\* uploadFile rejects: the request does not reach the backend (ERR_NETWORK) or its
\* answer does not come in time (ECONNABORTED); catch: setError(err.message);
\* finally: setUploading(false)
\* (mutant: no finally block, uploading is left as it is)
UploadFailsNoFinally(i) ==
    /\ fuCalls[i].pc \in {"posting", "stored"}
    /\ LET e == Interceptor(IF fuCalls[i].pc = "posting" THEN ErrNetwork ELSE ErrTimeout)
       IN  /\ fuCalls' = [fuCalls EXCEPT ![i].pc = "done", ![i].err = e.message]
           /\ fuError' = IF fuCalls[i].live THEN e.message ELSE fuError
    /\ UNCHANGED <<backendVars, appVars, uploading, anCalls, lastResult, rq, sh, pv>>
UploadFails(i) ==
    /\ fuCalls[i].pc \in {"posting", "stored"}
    /\ LET e == Interceptor(IF fuCalls[i].pc = "posting" THEN ErrNetwork ELSE ErrTimeout)
       IN  /\ fuCalls' = [fuCalls EXCEPT ![i].pc = "done", ![i].err = e.message]
           /\ fuError' = IF fuCalls[i].live THEN e.message ELSE fuError
    /\ uploading' = IF fuCalls[i].live THEN FALSE ELSE uploading
    /\ UNCHANGED <<backendVars, appVars, anCalls, lastResult, rq, sh, pv>>

\* uploadFile resolves: onFileUpload(file, response.file_id), which is
\* App.handleFileUpload; finally: setUploading(false).  The App leaves the
\* upload step, which unmounts FileUpload.
UploadResponse(i) ==
    /\ fuCalls[i].pc = "stored"
    /\ uploadedFile' = fuCalls[i].file
    /\ fileId' = fuCalls[i].file_id
    /\ currentStep' = "preview"
    /\ error' = NullStr
    /\ uploading' = FALSE
    /\ fuError' = NullStr
    /\ fuCalls' = Unmounted([fuCalls EXCEPT ![i].pc = "done", ![i].notified = @ + 1])
    /\ UNCHANGED <<backendVars, analysisData, recommendations, loading,
                   anCalls, lastResult, rq, sh, pv>>

\* ==================================================== frontend: App.jsx

MsgAnalysisFailed == "Analysis failed. Please try again."

\* the step panels App renders
PreviewShown == currentStep = "preview" /\ uploadedFile # NoFile
ResultsShown ==
    currentStep = "results" /\ Truthy(analysisData) /\ Truthy(recommendations)

\* handleAnalyze up to await analyzeAndRecommend(fileId), which enters
\* retryRequest with its default arguments; with no fileId it returns at once
HandleAnalyze ==
    /\ PreviewShown
    /\ fileId # NoId
    /\ Len(anCalls) < MaxAnalyzes
    /\ loading' = TRUE
    /\ error' = NullStr
    /\ currentStep' = "analysis"
    /\ anCalls' = Append(anCalls,
           RetryEnter(RetryIdle, DefaultRetries, DefaultDelay)
             @@ [fileId |-> fileId, req |-> 0])
    /\ UNCHANGED <<backendVars, uploadedFile, fileId, analysisData, recommendations,
                   fuVars, fuCalls, lastResult, rq, sh, pv>>

\* the POST /analyze-and-recommend of call c reaches the backend
AnalyzeArrives(c) ==
    /\ anCalls[c].pc = "pending"
    /\ anCalls[c].req = 0
    /\ Len(reqs) < MaxRequests
    /\ reqs' = Append(reqs, NewRequest(anCalls[c].fileId, c))
    /\ anCalls' = [anCalls EXCEPT ![c].req = Len(reqs) + 1]
    /\ UNCHANGED <<uploads, nextId, sweepTimer, cleanupErrors, raced, appVars,
                   fuVars, fuCalls, lastResult, rq, sh, pv>>

\* handleAnalyze after analyzeAndRecommend rejected with e: catch, finally
AnalyzeRejected(e) ==
    /\ error' = IF StrTruthy(e.message) THEN e.message ELSE MsgAnalysisFailed
    /\ currentStep' = "preview"
    /\ loading' = FALSE
    /\ uploading' = FALSE
    /\ fuError' = NullStr
    /\ fuCalls' = Unmounted(fuCalls)
    /\ UNCHANGED <<uploadedFile, fileId, analysisData, recommendations, lastResult>>

\* fn of call c rejects with the axios error `raw`: the interceptor rethrows,
\* retryRequest catches.  A call left in pc "wait" would go on with RetryRecurse
\* once its timer fires; what the interceptor throws carries no code, so
\* RetryCatch never leaves a call of analyzeAndRecommend there.
AnalyzeFails(c, raw) ==
    LET st == RetryCatch(anCalls[c], Interceptor(raw))
    IN  /\ anCalls' = [anCalls EXCEPT ![c] = [st EXCEPT !.req = 0]]
        /\ IF st.pc = "rejected"
           THEN AnalyzeRejected(st.err)
           ELSE UNCHANGED <<appVars, fuVars, fuCalls, lastResult>>

\* the request of call c does not reach the backend
AnalyzeNetworkError(c) ==
    /\ anCalls[c].pc = "pending"
    /\ anCalls[c].req = 0
    /\ AnalyzeFails(c, ErrNetwork)
    /\ UNCHANGED <<backendVars, rq, sh, pv>>

\* no answer within the 30 s timeout: the handler goes on running
AnalyzeTimeout(c) ==
    /\ anCalls[c].pc = "pending"
    /\ anCalls[c].req # 0
    /\ AnalyzeFails(c, ErrTimeout)
    /\ UNCHANGED <<backendVars, rq, sh, pv>>

\* the answer comes in: fn returns response.data, retryRequest returns it,
\* handleAnalyze stores result.analysis and result.recommendations; finally
AnalyzeResponse(c) ==
    /\ anCalls[c].pc = "pending"
    /\ anCalls[c].req # 0
    /\ reqs[anCalls[c].req].outcome = "returned"
    /\ LET result == reqs[anCalls[c].req].body
       IN  /\ lastResult' = result
           /\ analysisData' = result.analysis
           /\ recommendations' = result.recommendations
    /\ currentStep' = "results"
    /\ loading' = FALSE
    /\ uploading' = FALSE
    /\ fuError' = NullStr
    /\ fuCalls' = Unmounted(fuCalls)
    /\ anCalls' = [anCalls EXCEPT ![c].pc = "resolved"]
    /\ UNCHANGED <<backendVars, uploadedFile, fileId, error, rq, sh, pv>>

\* handleStartOver: FileUpload is mounted anew
\* (mutant: it also has the backend remove the file, as cleanupFile(fileId) would)
HandleStartOverCleansUp ==
    /\ PreviewShown \/ ResultsShown
    /\ uploads' = Restrict(uploads, disk \ {fileId})
    /\ uploadedFile' = NoFile
    /\ fileId' = NoId
    /\ analysisData' = Null
    /\ recommendations' = Null
    /\ error' = NullStr
    /\ currentStep' = "upload"
    /\ uploading' = FALSE
    /\ fuError' = NullStr
    /\ UNCHANGED <<nextId, sweepTimer, reqs, cleanupErrors, raced, loading, fuCalls,
                   anCalls, lastResult, rq, sh, pv>>
HandleStartOver ==
    /\ PreviewShown \/ ResultsShown
    /\ uploadedFile' = NoFile
    /\ fileId' = NoId
    /\ analysisData' = Null
    /\ recommendations' = Null
    /\ error' = NullStr
    /\ currentStep' = "upload"
    /\ uploading' = FALSE
    /\ fuError' = NullStr
    /\ UNCHANGED <<backendVars, loading, fuCalls, anCalls, lastResult, rq, sh, pv>>

\* ======================================================= ImagePreview.jsx
\* One ImagePreview instance under any parent: it is mounted with a file prop,
\* rendered again with the same or another file, and unmounted.  URL.createObjectURL
\* returns a new URL each time: the URLs are numbered 1, 2, ...

\* mounts, renders and unmounts of the instance
MaxRenders == 5

\* no instance yet: `url` is the URL the pending cleanup function will revoke (0:
\* no cleanup pending), `revoked` the calls of URL.revokeObjectURL in order
PreviewIdle ==
    [mounted |-> FALSE, file |-> NoFile, url |-> 0, imageUrl |-> 0, created |-> 0,
     revoked |-> <<>>, renders |-> 0]

\* the effect body: if (file) { url = createObjectURL(file); setImageUrl(url);
\* return () => revokeObjectURL(url) }
PreviewEffect(p, file) ==
    IF file # NoFile
    THEN [p EXCEPT !.file = file, !.created = @ + 1, !.url = p.created + 1,
                   !.imageUrl = p.created + 1]
    ELSE [p EXCEPT !.file = file, !.url = 0]

\* the cleanup function the last effect returned, if it returned one
\* (mutant: the effect returns no cleanup function)
PreviewCleanupMissing(p) == [p EXCEPT !.url = 0]
PreviewCleanup(p) ==
    IF p.url # 0 THEN [p EXCEPT !.revoked = Append(@, p.url), !.url = 0] ELSE p

\* the parent mounts <ImagePreview file={file} />: useState(null), then the effect
PreviewMount(file) ==
    /\ ~pv.mounted
    /\ pv.renders < MaxRenders
    /\ pv' = PreviewEffect([pv EXCEPT !.mounted = TRUE, !.imageUrl = 0,
                                      !.renders = @ + 1], file)
    /\ UNCHANGED <<backendVars, frontVars, rq, sh>>

\* the parent renders it again: with another file, cleanup and effect run, in
\* that order; with the same file (the dependency [file] is unchanged), neither
PreviewRender(file) ==
    /\ pv.mounted
    /\ pv.renders < MaxRenders
    /\ pv' = IF file = pv.file
             THEN [pv EXCEPT !.renders = @ + 1]
             ELSE PreviewEffect(PreviewCleanup([pv EXCEPT !.renders = @ + 1]), file)
    /\ UNCHANGED <<backendVars, frontVars, rq, sh>>

\* the parent stops rendering it: the cleanup runs
PreviewUnmount ==
    /\ pv.mounted
    /\ pv.renders < MaxRenders
    /\ pv' = [PreviewCleanup(pv) EXCEPT !.mounted = FALSE, !.renders = @ + 1]
    /\ UNCHANGED <<backendVars, frontVars, rq, sh>>

\* ============================================================ deploy.sh
\* deploy.sh (README.md): one run of the script is one step.  Options 1, 5 and 6
\* are modelled; any other choice stands for the `*` branch (options 2 to 4 run
\* npm and pip and touch none of what options 1, 5 and 6 look at, except
\* frontend/.env.production, which is an input here).

\* runs of deploy.sh in one repository
MaxRuns == 2
\* ways in which the repository differs from a complete checkout
MaxDefects == 2

\* total_checks=8
total_checks == 8

\* paths, as sequences of their components
DeploymentGuide == <<"DEPLOYMENT_GUIDE.md">>
Gitignore == <<".gitignore">>
EnvExample == <<".env.example">>
BackendEnv == <<"backend", ".env">>
FrontendEnvDev == <<"frontend", ".env.development">>

RepoDirs ==
    {<<"backend">>, <<"backend", "uploads">>, <<"frontend">>, <<"frontend", "src">>,
     <<"frontend", "src", "components">>,
     <<"frontend", "src", "services">>}
RepoFiles ==
    {DeploymentGuide, Gitignore, EnvExample, BackendEnv, FrontendEnvDev, <<"frontend", ".env.production">>,
     <<"backend", "render.yaml">>, <<"backend", "requirements.txt">>,
     <<"backend", "main.py">>, <<"backend", "face_analyzer.py">>,
     <<"backend", "claude_client.py">>, <<"frontend", "netlify.toml">>,
     <<"frontend", "package.json">>, <<"frontend", "src", "App.jsx">>,
     <<"frontend", "src", "services", "api.js">>}

\* a directory entry and a regular file with its text
Dir == [kind |-> "dir", text |-> ""]
File(text) == [kind |-> "file", text |-> text]

\* the texts .gitignore may have, by the patterns grep finds in it
GitignoreFull == "lines matching .env and backend/.env"
GitignoreEnvOnly == "lines matching .env, none matching backend/.env"
GitignoreOther == "no line matching .env"
GitignoreTexts == {GitignoreFull, GitignoreEnvOnly, GitignoreOther}
\* the two here-documents of option 1
BackendEnvTemplate == "CLAUDE_API_KEY=sk-ant-REDACTED DEBUG=True LOG_LEVEL=DEBUG"
FrontendEnvTemplate == "VITE_API_URL=http://localhost:8000 VITE_NODE_ENV=development"

\* [ -f path ], [ -d path ]
IsFile(fs, path) == path \in DOMAIN fs /\ fs[path].kind = "file"
IsDir(fs, path) == path \in DOMAIN fs /\ fs[path].kind = "dir"

\* path is d or lies under it
IsUnder(path, d) == Len(path) >= Len(d) /\ SubSeq(path, 1, Len(d)) = d

\* a complete checkout in which local development has been set up
CompleteRepo(gitignore) ==
    [path \in RepoDirs \cup RepoFiles |->
        IF path \in RepoDirs THEN Dir
        ELSE IF path = Gitignore THEN File(gitignore)
        ELSE IF path = EnvExample THEN File("the text of .env.example")
        ELSE IF path = BackendEnv THEN File("the developer's backend/.env")
        ELSE IF path = FrontendEnvDev THEN File("the developer's .env.development")
        ELSE File("")]
\* the same without the paths in `missing` and all that lies under them
RepoWithout(missing, gitignore) ==
    LET all == CompleteRepo(gitignore)
        left == {path \in DOMAIN all : \A m \in missing : ~IsUnder(path, m)}
    IN  [path \in left |-> all[path]]

\* the state of one run: exit status ("running" until the script ends), the
\* file system, what was printed, and the two counters
NewRun(fs) ==
    [status |-> "running", fs |-> fs, out |-> <<>>, checks_passed |-> 0,
     security_issues |-> 0]

\* log_info / log_success / log_warning / log_error "msg", with the number it
\* prints (0 when none)
Say(st, msg, n) == [st EXCEPT !.out = Append(@, [msg |-> msg, n |-> n])]
Said(st, msg, n) == \E i \in DOMAIN st.out : st.out[i] = [msg |-> msg, n |-> n]
SaidAny(st, msg) == \E i \in DOMAIN st.out : st.out[i].msg = msg

\* a command returned non-zero outside a condition: set -e ends the script
Errexit(st) == [st EXCEPT !.status = "exit 1"]

\* ((v++)): v becomes v + 1; the command's exit status is 1 when the value of
\* the expression, the old v, is 0
ArithPostIncrement(v) == [value |-> v + 1, status |-> IF v = 0 THEN 1 ELSE 0]

\* ((counter++)) as a statement under set -e.  bash from 4.1 on exits when a
\* (( )) command fails, bash 3.2 and 4.0 (the /bin/bash of macOS) go on
PostIncrement(st, counter, env) ==
    LET a == ArithPostIncrement(st[counter])
        t == [st EXCEPT ![counter] = a.value]
    IN  IF a.status # 0 /\ env.errexitArith THEN Errexit(t) ELSE t

\* cp src dst and cat > dst << EOF: dst gets the text; both fail when the
\* directory of dst does not exist
WriteFile(st, path, text) ==
    IF IsDir(st.fs, SubSeq(path, 1, Len(path) - 1))
    THEN [st EXCEPT !.fs = [p \in DOMAIN st.fs \cup {path} |->
                               IF p = path THEN File(text) ELSE st.fs[p]]]
    ELSE Errexit(st)

\* mkdir -p path: creates the directories of path that are missing
MkdirP(st, path) ==
    LET dirs == {SubSeq(path, 1, n) : n \in 1..Len(path)}
    IN  IF \E d \in dirs : IsFile(st.fs, d)
        THEN Errexit(st)
        ELSE [st EXCEPT !.fs = [p \in DOMAIN st.fs \cup dirs |->
                                   IF p \in DOMAIN st.fs THEN st.fs[p] ELSE Dir]]


\* ---- option 1: environment files for local development

\* (mutant: backend/.env is written whether it exists or not)
SetupBackendEnvOverwrites(st) ==
    IF IsFile(st.fs, EnvExample)
    THEN LET t == WriteFile(st, BackendEnv, st.fs[EnvExample].text)
         IN  IF t.status = "running"
             THEN Say(t, "Please edit backend/.env and add your CLAUDE_API_KEY", 0)
             ELSE t
    ELSE LET t == WriteFile(st, BackendEnv, BackendEnvTemplate)
         IN  IF t.status = "running"
             THEN Say(t, "Created backend/.env - please add your CLAUDE_API_KEY", 0)
             ELSE t
\* if [ ! -f "backend/.env" ]: copy .env.example, or write the template
SetupBackendEnv(st) ==
    IF IsFile(st.fs, BackendEnv) THEN Say(st, "backend/.env already exists", 0)
    ELSE IF IsFile(st.fs, EnvExample)
    THEN LET t == WriteFile(st, BackendEnv, st.fs[EnvExample].text)
         IN  IF t.status = "running"
             THEN Say(t, "Please edit backend/.env and add your CLAUDE_API_KEY", 0)
             ELSE t
    ELSE LET t == WriteFile(st, BackendEnv, BackendEnvTemplate)
         IN  IF t.status = "running"
             THEN Say(t, "Created backend/.env - please add your CLAUDE_API_KEY", 0)
             ELSE t

\* if [ ! -f "frontend/.env.development" ]: write the template
SetupFrontendEnv(st) ==
    IF st.status # "running" THEN st
    ELSE IF IsFile(st.fs, FrontendEnvDev) THEN Say(st, "frontend/.env.development already exists", 0)
    ELSE LET t == WriteFile(st, FrontendEnvDev, FrontendEnvTemplate)
         IN  IF t.status = "running" THEN Say(t, "Created frontend/.env.development", 0) ELSE t

\* mkdir -p backend/uploads and the closing messages
SetupUploadsDir(st) ==
    IF st.status # "running" THEN st
    ELSE LET t == MkdirP(st, <<"backend", "uploads">>)
         IN  IF t.status = "running"
             THEN Say(Say(t, "Created backend/uploads directory", 0), "Environment setup complete!", 0)
             ELSE t

RunSetup(st) == SetupUploadsDir(SetupFrontendEnv(SetupBackendEnv(st)))

\* ---- option 5: deployment health checks
MsgHealthOk == "health check passed"
MsgHealthMissing == "health check failed"
MsgHealthResults == "Health check results: $checks_passed/$total_checks checks passed"
MsgHealthAllPassed == "All health checks passed! Ready for deployment"
MsgHealthSomeFailed == "Some health checks failed. Please review the issues above."

\* grep -q ".env" file, grep -q "backend/.env" file
GrepEnv(text) == text \in {GitignoreFull, GitignoreEnvOnly}
GrepBackendEnv(text) == text = GitignoreFull

\* the condition of the k-th health check
HealthCond(k, fs) ==
    CASE k = 1 -> IsFile(fs, DeploymentGuide)
      [] k = 2 -> IsFile(fs, <<"backend", "render.yaml">>)
      [] k = 3 -> IsFile(fs, <<"frontend", "netlify.toml">>)
      [] k = 4 -> IsFile(fs, Gitignore) /\ GrepEnv(fs[Gitignore].text)
      [] k = 5 -> IsFile(fs, <<"backend", "requirements.txt">>)
      [] k = 6 -> IsFile(fs, <<"frontend", "package.json">>)
      [] k = 7 -> /\ IsFile(fs, <<"backend", "main.py">>)
                  /\ IsFile(fs, <<"backend", "face_analyzer.py">>)
                  /\ IsFile(fs, <<"backend", "claude_client.py">>)
      [] k = 8 -> /\ IsFile(fs, <<"frontend", "src", "App.jsx">>)
                  /\ IsDir(fs, <<"frontend", "src", "components">>)
                  /\ IsFile(fs, <<"frontend", "src", "services", "api.js">>)

\* the k-th check: log_success and ((checks_passed++)), or log_error
HealthCheck(st, k, env) ==
    IF st.status # "running" THEN st
    ELSE IF HealthCond(k, st.fs)
    THEN PostIncrement(Say(st, MsgHealthOk, k), "checks_passed", env)
    ELSE Say(st, MsgHealthMissing, k)

\* the checks 1 to k, in order
RECURSIVE HealthChecks(_, _, _)
HealthChecks(st, k, env) ==
    IF k = 0 THEN st ELSE HealthCheck(HealthChecks(st, k - 1, env), k, env)

\* the result line and the verdict
HealthReport(st) ==
    IF st.status # "running" THEN st
    ELSE LET t == Say(st, MsgHealthResults, st.checks_passed)
         IN  IF st.checks_passed = total_checks
             THEN Say(t, MsgHealthAllPassed, 0)
             ELSE Say(t, MsgHealthSomeFailed, 0)

RunHealth(st, env) == HealthReport(HealthChecks(st, total_checks, env))

\* ---- option 6: security verification
MsgKeysFound == "Found hardcoded API keys in source code!"
MsgKeysNone == "No hardcoded API keys found in source code"
MsgTracked == "Environment files are tracked by git!"
MsgUntracked == "No environment files tracked by git"
MsgSecurityPassed == "Security verification passed!"
MsgSecurityIssues == "Found $security_issues security issues. Please fix them before deployment."

\* grep -r "sk-ant-api03-" backend/ frontend/ ... returns 0: a key is in the
\* sources, and both directories can be read (grep returns 2 after an error)
KeysFound(fs, env) == env.keys /\ IsDir(fs, <<"backend">>) /\ IsDir(fs, <<"frontend">>)
\* the .gitignore check fails
GitignoreFails(fs) ==
    ~IsFile(fs, Gitignore)
        \/ ~(GrepEnv(fs[Gitignore].text) /\ GrepBackendEnv(fs[Gitignore].text))

SecurityKeys(st, env) ==
    IF KeysFound(st.fs, env)
    THEN PostIncrement(Say(st, MsgKeysFound, 0), "security_issues", env)
    ELSE Say(st, MsgKeysNone, 0)

SecurityGitignore(st, env) ==
    IF st.status # "running" THEN st
    ELSE IF IsFile(st.fs, Gitignore)
    THEN IF GrepEnv(st.fs[Gitignore].text) /\ GrepBackendEnv(st.fs[Gitignore].text)
         THEN Say(st, ".gitignore properly excludes environment files", 0)
         ELSE PostIncrement(Say(st, ".gitignore doesn't exclude all environment files", 0),
                            "security_issues", env)
    ELSE PostIncrement(Say(st, ".gitignore file missing", 0), "security_issues", env)

SecurityTracked(st, env) ==
    IF st.status # "running" THEN st
    \* git ls-files | grep -E "\.env$|\.env\." returns 0
    ELSE IF env.tracked
    THEN PostIncrement(Say(st, MsgTracked, 0), "security_issues", env)
    ELSE Say(st, MsgUntracked, 0)

\* the for loop over the three environment files: one line for each that
\* exists (success or warning, by its mode), no change of security_issues
SecurityPermissions(st) ==
    IF st.status # "running" THEN st
    ELSE LET n == Cardinality({p \in {BackendEnv, FrontendEnvDev, <<"frontend", ".env.production">>} :
                                  IsFile(st.fs, p)})
         IN  IF n = 0 THEN st ELSE Say(st, "permissions of the environment file reported", n)

SecurityReport(st) ==
    IF st.status # "running" THEN st
    ELSE IF st.security_issues = 0
    THEN Say(st, MsgSecurityPassed, 0)
    ELSE Say(st, MsgSecurityIssues, st.security_issues)

RunSecurity(st, env) ==
    SecurityReport(SecurityPermissions(
        SecurityTracked(SecurityGitignore(SecurityKeys(st, env), env), env)))

\* ---- the script
\* what the user types at `read -p`: 1, 5, 6, or something the case does not know
Choices == {1, 5, 6, 7}

\* after esac: the pointers to the documentation, and the script ends
Epilogue(st) ==
    IF st.status # "running" THEN st
    ELSE [Say(st, "For more detailed instructions, see:", 0) EXCEPT !.status = "exit 0"]

\* the whole script for one choice
RunScript(st, choice, env) ==
    IF ~IsFile(st.fs, DeploymentGuide)
    THEN Errexit(Say(st, "Please run this script from the GlamAI root directory", 0))
    ELSE Epilogue(CASE choice = 1 -> RunSetup(st)
                    [] choice = 5 -> RunHealth(st, env)
                    [] choice = 6 -> RunSecurity(st, env)
                    [] OTHER -> Errexit(Say(st, "Invalid choice. Please run the script again.", 0)))

\* the repository before any run (the application's specifications run no script)
ShIdle ==
    [fs |-> <<>>, env |-> [errexitArith |-> TRUE, keys |-> FALSE, tracked |-> FALSE],
     hist |-> <<>>]

\* ./deploy.sh, answered with `choice`
DeployRun(choice) ==
    /\ Len(sh.hist) < MaxRuns
    /\ LET st == RunScript(NewRun(sh.fs), choice, sh.env)
       IN  sh' = [sh EXCEPT !.fs = st.fs,
                            !.hist = Append(@, [choice |-> choice, before |-> sh.fs,
                                                 run |-> st])]
    /\ UNCHANGED <<backendVars, frontVars, rq, pv>>

\* the sets of at most k elements of S
RECURSIVE SubsetsUpTo(_, _)
SubsetsUpTo(S, k) ==
    IF k = 0 THEN {{}}
    ELSE LET smaller == SubsetsUpTo(S, k - 1)
         IN  smaller \cup {T \cup {x} : T \in smaller, x \in S}

\* ====================================================== specification

Init ==
    /\ uploads = <<>>
    /\ nextId = 1
    /\ sweepTimer = SweepInterval
    /\ reqs = <<>>
    /\ cleanupErrors = {}
    /\ raced = {}
    /\ uploadedFile = NoFile
    /\ fileId = NoId
    /\ analysisData = Null
    /\ recommendations = Null
    /\ loading = FALSE
    /\ error = NullStr
    /\ currentStep = "upload"
    /\ uploading = FALSE
    /\ fuError = NullStr
    /\ fuCalls = <<>>
    /\ anCalls = <<>>
    /\ lastResult = NoBody
    /\ rq = RetryIdle
    /\ sh = ShIdle
    /\ pv = PreviewIdle

Next ==
    \/ \E file \in Files : HandleFileUploadInvalid(file)
    \/ \E file \in Files : HandleFileUploadValid(file)
    \/ \E i \in DOMAIN fuCalls : UploadStore(i)
    \/ \E i \in DOMAIN fuCalls : UploadFails(i)
    \/ \E i \in DOMAIN fuCalls : UploadResponse(i)
    \/ HandleAnalyze
    \/ \E c \in DOMAIN anCalls : AnalyzeArrives(c)
    \/ \E c \in DOMAIN anCalls : AnalyzeNetworkError(c)
    \/ \E c \in DOMAIN anCalls : AnalyzeTimeout(c)
    \/ \E c \in DOMAIN anCalls : AnalyzeResponse(c)
    \/ HandleStartOver
    \/ \E r \in DOMAIN reqs : AnalyzeFaceOk(r)
    \/ \E r \in DOMAIN reqs : AnalyzeFaceRaise(r)
    \/ \E r \in DOMAIN reqs : GetRecommendationsOk(r)
    \/ \E r \in DOMAIN reqs : GetRecommendationsRaise(r)
    \/ PeriodicCleanup
    \/ Tick

Spec == Init /\ [][Next]_vars

\* the sweep task and the clock keep running
LiveSpec == Spec /\ WF_vars(Tick) /\ WF_vars(PeriodicCleanup)

\* retryRequest on its own: any arguments, any fn
InitRetry ==
    /\ uploads = <<>>
    /\ nextId = 1
    /\ sweepTimer = SweepInterval
    /\ reqs = <<>>
    /\ cleanupErrors = {}
    /\ raced = {}
    /\ uploadedFile = NoFile
    /\ fileId = NoId
    /\ analysisData = Null
    /\ recommendations = Null
    /\ loading = FALSE
    /\ error = NullStr
    /\ currentStep = "upload"
    /\ uploading = FALSE
    /\ fuError = NullStr
    /\ fuCalls = <<>>
    /\ anCalls = <<>>
    /\ lastResult = NoBody
    /\ \E args \in RetryArgs : rq = RqEntered(args)
    /\ sh = ShIdle
    /\ pv = PreviewIdle

NextRetry ==
    \/ RqFnResolves
    \/ \E e \in FnErrors : RqFnRejects(e)
    \/ RqTimerFires

SpecRetry == InitRetry /\ [][NextRetry]_vars

\* every call of fn settles and every timer fires
LiveSpecRetry == SpecRetry /\ WF_vars(NextRetry)

\* retryRequest around a request of `api`: any arguments, any axios error
NextApi ==
    \/ RqFnResolves
    \/ \E e \in AxiosErrors : RqApiRejects(e)

SpecApi == InitRetry /\ [][NextApi]_vars

\* the upload step with more kinds of file: four image types and one other,
\* sizes below, at and above the limit
TypeJpeg == ImagePrefix \o <<"j", "p", "e", "g">>
TypeWebp == ImagePrefix \o <<"w", "e", "b", "p">>
TypeGif == ImagePrefix \o <<"g", "i", "f">>
AllFiles ==
    [type : {TypeJpeg, TypePng, TypeWebp, TypeGif, TypeText},
     size : {maxSize - 1, maxSize, maxSize + 1}]

NextUpload ==
    \/ \E file \in AllFiles : HandleFileUploadInvalid(file)
    \/ \E file \in AllFiles : HandleFileUploadValid(file)
    \/ \E i \in DOMAIN fuCalls : UploadStore(i)
    \/ \E i \in DOMAIN fuCalls : UploadFails(i)
    \/ \E i \in DOMAIN fuCalls : UploadResponse(i)
    \/ HandleStartOver
    \/ PeriodicCleanup
    \/ Tick

SpecUpload == Init /\ [][NextUpload]_vars

\* deploy.sh in a repository that differs from a complete checkout in at most
\* MaxDefects ways: a path that is missing, a .gitignore with other lines, an API
\* key in the sources, an environment file tracked by git
InitDeploy ==
    /\ uploads = <<>>
    /\ nextId = 1
    /\ sweepTimer = SweepInterval
    /\ reqs = <<>>
    /\ cleanupErrors = {}
    /\ raced = {}
    /\ uploadedFile = NoFile
    /\ fileId = NoId
    /\ analysisData = Null
    /\ recommendations = Null
    /\ loading = FALSE
    /\ error = NullStr
    /\ currentStep = "upload"
    /\ uploading = FALSE
    /\ fuError = NullStr
    /\ fuCalls = <<>>
    /\ anCalls = <<>>
    /\ lastResult = NoBody
    /\ rq = RetryIdle
    /\ \E missing \in SubsetsUpTo(RepoDirs \cup RepoFiles, MaxDefects),
          gitignore \in GitignoreTexts, keys \in BOOLEAN, tracked \in BOOLEAN,
          errexitArith \in BOOLEAN :
          /\ Cardinality(missing) + (IF gitignore = GitignoreFull THEN 0 ELSE 1)
                + (IF keys THEN 1 ELSE 0) + (IF tracked THEN 1 ELSE 0) <= MaxDefects
          /\ sh = [fs |-> RepoWithout(missing, gitignore),
                   env |-> [errexitArith |-> errexitArith, keys |-> keys,
                            tracked |-> tracked],
                   hist |-> <<>>]
    /\ pv = PreviewIdle

NextDeploy == \E choice \in Choices : DeployRun(choice)

SpecDeploy == InitDeploy /\ [][NextDeploy]_vars

\* ImagePreview on its own: any file prop, the null one included
NextPreview ==
    \/ \E file \in Files \cup {NoFile} : PreviewMount(file)
    \/ \E file \in Files \cup {NoFile} : PreviewRender(file)
    \/ PreviewUnmount

SpecPreview == Init /\ [][NextPreview]_vars

\* ============================================================= claims

\* C1: whenever analyze_and_recommend has returned for a file_id, with a success
\* result or with an error result, the file uploads/{file_id} no longer exists.
C1_FileGoneAfterReturn ==
    \A r \in DOMAIN reqs :
        reqs[r].pc = "done" /\ reqs[r].body.status \in {"success", "error"}
            => reqs[r].file_id \notin disk

\* a request that read the file, failed in get_recommendations and has returned
C1_Witness ==
    \E r \in DOMAIN reqs :
        /\ reqs[r].pc = "done" /\ reqs[r].read
        /\ reqs[r].body.status = "error" /\ reqs[r].raisedIn = "recommendations"

\* an HTTP request that uses file f is in progress: the upload that stores it is
\* not answered yet, a POST /analyze-and-recommend for it is not answered yet, or
\* an analyze_and_recommend call for it is running
RequestInProgress(f) ==
    \/ \E i \in DOMAIN fuCalls : fuCalls[i].file_id = f /\ fuCalls[i].pc = "stored"
    \/ \E c \in DOMAIN anCalls : anCalls[c].fileId = f /\ anCalls[c].pc = "pending"
    \/ \E r \in RequestsOf(f) : Running(r)

\* C2 as stated: a file exists on disk only while an HTTP request using it is in
\* progress.
C2_OnlyDuringRequest == \A f \in disk : RequestInProgress(f)

\* C2 amended: a file on disk was stored by an upload and no analyze_and_recommend
\* call for it has returned yet; it may be on disk with no request in progress.
C2_OnlyUntilAnalyzed ==
    \A f \in disk : f < nextId /\ \A r \in RequestsOf(f) : Running(r)

\* a stored file while no request is in progress
C2_Witness == \E f \in disk : ~RequestInProgress(f)

\* C3: every file an upload created is eventually deleted, by the request that
\* reads it or by the sweep, given that the sweep task and the clock keep running.
C3_EventuallyDeleted == \A f \in FileIds : (f \in disk) ~> (f \notin disk)

\* a file that was stored and is gone though no request was ever made for it
C3_Witness ==
    \E f \in FileIds : f < nextId /\ f \notin disk /\ RequestsOf(f) = {}

\* C4: in the race between the sweep and a request's own deletion of the same
\* file, no os.remove raises because the file is already gone, and the file is
\* absent afterwards.
C4_RaceHarmless == cleanupErrors = {} /\ \A f \in raced : f \notin disk

\* a request has returned whose file the sweep removed while it was running
C4_Witness == \E r \in DOMAIN reqs : ~Running(r) /\ reqs[r].file_id \in raced

\* C5 as stated: each uploaded file is read by at most one request.
C5_ReadOnce ==
    \A f \in FileIds : Cardinality({r \in RequestsOf(f) : reqs[r].read}) <= 1

\* C5 amended: no request reads a file after an analyze_and_recommend call for
\* the same file_id has returned (calls that overlap may each read it).
C5_NoReadAfterReturn ==
    [][\A r \in DOMAIN reqs :
          (~reqs[r].read /\ reqs'[r].read)
              => \A q \in RequestsOf(reqs[r].file_id) : Running(q)]_vars

\* two calls for one file_id have returned; the first read it, the other found
\* it gone
C5_Witness ==
    \E q, r \in DOMAIN reqs :
        /\ q # r /\ reqs[q].file_id = reqs[r].file_id
        /\ ~Running(q) /\ ~Running(r)
        /\ reqs[q].read /\ ~reqs[r].read

\* C6: a call of analyzeAndRecommend whose request fails with ERR_NETWORK or
\* ECONNABORTED (the only failures of the model) sends the request again, up to
\* 2 more times, before the error reaches handleAnalyze: a call that was
\* rejected has made 3 requests.
C6_RetriedBeforeError ==
    \A c \in DOMAIN anCalls :
        anCalls[c].pc = "rejected" => anCalls[c].calls = 1 + DefaultRetries

\* C7: retryRequest waits `delay` before the first retry and 1.5 times the last
\* delay before each further one (2000 ms, then 3000 ms with the default
\* arguments), and every call of fn after the first follows such a wait.
C7_Backoff ==
    /\ \A i \in DOMAIN rq.waited :
          /\ i = 1 => rq.waited[i] = rq.args.delay
          /\ i > 1 => 2 * rq.waited[i] = 3 * rq.waited[i - 1]
    /\ rq.calls = Len(rq.waited) + 1
    /\ (rq.args.retries = 2 /\ rq.args.delay = 2000 /\ Len(rq.waited) = 2)
          => rq.waited = <<2000, 3000>>

\* the default arguments, two retries made
C7_Witness ==
    /\ rq.args = [retries |-> 2, delay |-> 2000]
    /\ Len(rq.waited) = 2 /\ rq.calls = 3

\* the condition of C8 on a file, in the claim's words
C8_Invalid(f) ==
    \/ Len(f.type) < 6
    \/ SubSeq(f.type, 1, 6) # <<"i", "m", "a", "g", "e", "/">>
    \/ f.size > 10 * 1024 * 1024

\* C8: for a file whose type does not start with 'image/' or whose size exceeds
\* 10*1024*1024 bytes, handleFileUpload makes no upload request, never calls
\* onFileUpload, and sets an error message: the call ends at once with the
\* message in FileUpload's error state and nothing of the backend or of App
\* changed, and it never posts or notifies later.
C8_InvalidRejected ==
    /\ [](\A i \in DOMAIN fuCalls :
            C8_Invalid(fuCalls[i].file)
                => /\ ~fuCalls[i].posted
                   /\ fuCalls[i].file_id = NoId
                   /\ fuCalls[i].notified = 0
                   /\ fuCalls[i].pc = "done"
                   /\ StrTruthy(fuCalls[i].err))
    /\ [][LET n == Len(fuCalls')
          IN  (n = Len(fuCalls) + 1 /\ C8_Invalid(fuCalls'[n].file))
                  => /\ StrTruthy(fuError')
                     /\ fuError' = fuCalls'[n].err
                     /\ UNCHANGED <<backendVars, appVars>>]_vars

\* a call with an image that is too large has ended and its message is shown
C8_Witness ==
    \E i \in DOMAIN fuCalls :
        /\ fuCalls[i].file = [type |-> TypePng, size |-> 10 * 1024 * 1024 + 1]
        /\ fuCalls[i].pc = "done"
        /\ fuError = "File size must be less than 10MB"

\* C9: every body with status "success" carries an analysis and a
\* recommendations field, and in the results step reached with such a body App
\* holds exactly these two as analysisData and recommendations.
C9_BothFields ==
    /\ \A r \in DOMAIN reqs :
          reqs[r].body.status = "success"
              => /\ reqs[r].body.analysis.kind = "analysis"
                 /\ reqs[r].body.recommendations.kind = "recommendations"
    /\ (currentStep = "results" /\ lastResult.status = "success")
          => /\ analysisData = lastResult.analysis
             /\ recommendations = lastResult.recommendations
             /\ analysisData.kind = "analysis"
             /\ recommendations.kind = "recommendations"

\* the results step after a success
C9_Witness ==
    /\ currentStep = "results" /\ lastResult.status = "success"
    /\ \E r \in DOMAIN reqs : reqs[r].body = lastResult

\* C10: an exception raised by analyze_face or by get_recommendations does not
\* leave analyze_and_recommend: the handler returns a body with an error field
\* and status "error".
C10_ErrorsCaught ==
    \A r \in DOMAIN reqs :
        reqs[r].raisedIn # "none"
            => /\ reqs[r].outcome = "returned"
               /\ reqs[r].body.status = "error"
               /\ reqs[r].body.error # UndefStr

\* both awaits have raised, in two calls
C10_Witness ==
    /\ \E r \in DOMAIN reqs : reqs[r].raisedIn = "analysis"
    /\ \E r \in DOMAIN reqs : reqs[r].raisedIn = "recommendations"

\* C11 as stated: whenever the analysis started by handleAnalyze fails --
\* analyzeAndRecommend rejects, or the backend answers with its error JSON
\* (status "error") -- the App ends with a non-null error message,
\* currentStep = "preview" and loading = FALSE.
C11_FailureShown ==
    [][\A c \in DOMAIN anCalls :
          (/\ anCalls[c].pc = "pending"
           /\ \/ anCalls'[c].pc = "rejected"
              \/ anCalls'[c].pc = "resolved" /\ lastResult'.status = "error")
          => (StrTruthy(error') /\ currentStep' = "preview" /\ loading' = FALSE)]_vars

\* C12 as stated: an image file is uploaded only if its size is strictly less
\* than 10 * 1024 * 1024 bytes; one of that size or more is rejected with the
\* message "File size must be less than 10MB".
C12_StrictLimit ==
    \A i \in DOMAIN fuCalls :
        startsWith(fuCalls[i].file.type, ImagePrefix) =>
            /\ fuCalls[i].posted => fuCalls[i].file.size < 10 * 1024 * 1024
            /\ fuCalls[i].file.size >= 10 * 1024 * 1024 =>
                   ~fuCalls[i].posted /\ fuCalls[i].err = MsgTooLarge

\* C13 as stated: a file is uploaded only if its type is image/jpeg, image/png
\* or image/webp; a file of any other type, image/gif included, is rejected.
C13_ThreeFormats ==
    \A i \in DOMAIN fuCalls :
        /\ fuCalls[i].posted => fuCalls[i].file.type \in {TypeJpeg, TypePng, TypeWebp}
        /\ fuCalls[i].file.type \notin {TypeJpeg, TypePng, TypeWebp} =>
               ~fuCalls[i].posted /\ StrTruthy(fuCalls[i].err)

\* C14 as stated: a run of option 5 performs all 8 health checks and then prints
\* "Health check results: P/8 checks passed" with P the number of checks that
\* passed, followed by the all-passed message exactly when P = 8 and by the
\* some-failed warning otherwise.
C14_HealthReported ==
    \A i \in DOMAIN sh.hist :
        LET h == sh.hist[i]
            HealthPassing(fs) == Cardinality({k \in 1..8 : HealthCond(k, fs)})
        IN  (h.choice = 5 /\ IsFile(h.before, DeploymentGuide)) =>
                /\ \A k \in 1..8 :
                      Said(h.run, MsgHealthOk, k) \/ Said(h.run, MsgHealthMissing, k)
                /\ Said(h.run, MsgHealthResults, HealthPassing(h.before))
                /\ SaidAny(h.run, MsgHealthAllPassed) <=> HealthPassing(h.before) = 8
                /\ SaidAny(h.run, MsgHealthSomeFailed) <=> HealthPassing(h.before) # 8

\* C15 as stated: a run of option 6 performs every security check and finishes
\* by printing "Security verification passed" exactly when no check failed, and
\* otherwise "Found N security issues" with N the number of failed checks.
C15_SecurityReported ==
    \A i \in DOMAIN sh.hist :
        LET h == sh.hist[i]
            N == (IF KeysFound(h.before, sh.env) THEN 1 ELSE 0)
                    + (IF GitignoreFails(h.before) THEN 1 ELSE 0)
                    + (IF sh.env.tracked THEN 1 ELSE 0)
        IN  (h.choice = 6 /\ IsFile(h.before, DeploymentGuide)) =>
                /\ SaidAny(h.run, MsgKeysFound) \/ SaidAny(h.run, MsgKeysNone)
                /\ SaidAny(h.run, MsgTracked) \/ SaidAny(h.run, MsgUntracked)
                /\ SaidAny(h.run, MsgSecurityPassed) <=> N = 0
                /\ N > 0 => Said(h.run, MsgSecurityIssues, N)

\* C16: option 1 is non-destructive and idempotent: whatever existed before a
\* run of option 1 -- backend/.env and frontend/.env.development in particular --
\* exists with the same content after it, and a second run of option 1 right
\* after a first one leaves the file system as the first one left it.
C16_SetupIdempotent ==
    \A i \in DOMAIN sh.hist :
        LET FsAfter(j) == IF j < Len(sh.hist) THEN sh.hist[j + 1].before ELSE sh.fs
        IN
        sh.hist[i].choice = 1 =>
            /\ \A p \in DOMAIN sh.hist[i].before :
                  p \in DOMAIN FsAfter(i) /\ FsAfter(i)[p] = sh.hist[i].before[p]
            /\ (i > 1 /\ sh.hist[i - 1].choice = 1) => FsAfter(i) = sh.hist[i].before

\* option 1 ran twice in a row in a repository that had .env.example and the
\* developer's frontend/.env.development but no backend/.env: the first run
\* copied .env.example and kept the other file
C16_Witness ==
    /\ Len(sh.hist) = 2 /\ sh.hist[1].choice = 1 /\ sh.hist[2].choice = 1
    /\ BackendEnv \notin DOMAIN sh.hist[1].before
    /\ IsFile(sh.hist[1].before, FrontendEnvDev)
    /\ IsFile(sh.fs, BackendEnv)
    /\ sh.fs[BackendEnv] = sh.fs[EnvExample]
    /\ sh.hist[2].run.status = "exit 0"

\* C17 as stated: after a failed analysis has returned the App to the preview
\* step with its message, the file of the stored fileId is still available to the
\* backend, so that a further Analyze can succeed -- unless no handler has
\* finished with the file and the sweep removed it for its age.
C17_FileStillAvailable ==
    (/\ PreviewShown /\ fileId # NoId /\ StrTruthy(error)
     /\ \E c \in DOMAIN anCalls : anCalls[c].fileId = fileId /\ anCalls[c].pc = "rejected")
        => (fileId \in disk \/ \A r \in RequestsOf(fileId) : Running(r))

\* C18: retryRequest calls fn at most retries + 1 times (3 times with its
\* default arguments), retries goes down by one with every recursive call, and
\* the call settles: it resolves when the last fn() resolved and rejects with
\* the error of the last fn() otherwise.
C18_Settles ==
    /\ <>(rq.pc \in {"resolved", "rejected"})
    /\ [](/\ rq.calls <= rq.args.retries + 1
          /\ rq.args.retries = DefaultRetries => rq.calls <= 3
          /\ rq.retries = rq.args.retries - (rq.calls - 1)
          /\ rq.pc = "resolved" => rq.log[Len(rq.log)] = FnOk
          /\ rq.pc = "rejected" => rq.err = rq.log[Len(rq.log)] /\ rq.err # FnOk)
    /\ [][rq'.calls # rq.calls =>
             rq.retries > 0 /\ rq'.retries = rq.retries - 1 /\ rq'.calls = rq.calls + 1]_vars

\* the default arguments, fn failed three times with a network error: rejected
\* with it after the third call
C18_Witness ==
    /\ rq.args = [retries |-> DefaultRetries, delay |-> DefaultDelay]
    /\ rq.pc = "rejected" /\ rq.calls = 3 /\ rq.err = ErrNetwork
    /\ rq.log = <<ErrNetwork, ErrTimeout, ErrNetwork>>

C20_MessagePriority ==
    rq.log # <<>> /\ rq.log[Len(rq.log)] # FnOk =>
        LET e == rq.log[Len(rq.log)]
            m == rq.err.message
            byStatus == e.status \in {404, 500}
            byCode == ~byStatus /\ e.code \in {"ECONNABORTED", "ERR_NETWORK"}
        IN  /\ rq.pc = "rejected"
            /\ m # ""
            /\ e.status = 404 => m = Msg404
            /\ e.status = 500 => m = Msg500
            /\ (~byStatus /\ e.code = "ECONNABORTED") => m = MsgTimeout
            /\ (~byStatus /\ e.code = "ERR_NETWORK") => m = MsgNetwork
            /\ (~byStatus /\ ~byCode /\ e.detail # "") => m = e.detail
            /\ (~byStatus /\ ~byCode /\ e.detail = "" /\ e.message # "") => m = e.message
            /\ (~byStatus /\ ~byCode /\ e.detail = "" /\ e.message = "") => m = MsgUnexpected

\* a 404 answer whose body has a detail was rejected with the fixed message
C20_Witness ==
    /\ rq.pc = "rejected" /\ Len(rq.log) = 1
    /\ rq.log[1].status = 404 /\ rq.log[1].detail = "File not found"
    /\ rq.err.message = Msg404

C22_StepTransitions ==
    /\ [](currentStep \in {"upload", "preview", "analysis", "results"})
    /\ [][currentStep' # currentStep =>
             \/ currentStep' = "upload"
             \/ <<currentStep, currentStep'>> \in
                   {<<"upload", "preview">>, <<"preview", "analysis">>,
                    <<"analysis", "results">>, <<"analysis", "preview">>}]_vars

C24_StartOverFrame ==
    [][(currentStep # "upload" /\ currentStep' = "upload") =>
          /\ uploadedFile' = NoFile /\ fileId' = NoId
          /\ analysisData' = Null /\ recommendations' = Null
          /\ error' = NullStr
          /\ loading' = loading
          /\ UNCHANGED <<backendVars, fuCalls, anCalls>>]_vars

\* after a start over: loading is still true, and the file that was handed to the
\* App is still on the server
C24_Witness ==
    /\ currentStep = "upload" /\ fileId = NoId /\ loading = TRUE
    /\ \E i \in DOMAIN fuCalls : fuCalls[i].notified = 1 /\ fuCalls[i].file_id \in disk

\* C25: ImagePreview revokes every object URL it creates exactly once: no URL is
\* revoked twice or without having been created, a mounted preview has at most
\* one URL that is created and not yet revoked (the one its pending cleanup will
\* revoke), and none is left after unmount.
C25_UrlsRevokedOnce ==
    LET unrevoked == {u \in 1..pv.created : \A k \in DOMAIN pv.revoked : pv.revoked[k] # u}
    IN  /\ \A k, l \in DOMAIN pv.revoked :
              /\ pv.revoked[k] \in 1..pv.created
              /\ k # l => pv.revoked[k] # pv.revoked[l]
        /\ pv.mounted => Cardinality(unrevoked) <= 1 /\ unrevoked = {pv.url} \ {0}
        /\ ~pv.mounted => unrevoked = {}

\* two URLs were created, the first revoked when the file changed, the second
\* at unmount
C25_Witness ==
    /\ ~pv.mounted /\ pv.created = 2 /\ pv.revoked = <<1, 2>>

\* C26 as stated: a pass of the periodic sweep does not remove a file while an
\* analyze-and-recommend request is still reading it.
C26_SweepSparesFileInUse ==
    [][(sweepTimer >= 300 /\ sweepTimer' = 0) =>
          \A r \in DOMAIN reqs :
              (reqs[r].pc = "analyze_face" /\ reqs[r].file_id \in disk)
                  => reqs[r].file_id \in DOMAIN uploads']_vars

\* C27 as stated: in the results step the analysis and the recommendations shown
\* were computed for the stored fileId, and uploadedFile is the file uploaded
\* under that fileId.
C27_ResultsOfCurrentFile ==
    (currentStep = "results" /\ Truthy(analysisData) /\ Truthy(recommendations)) =>
        /\ analysisData.of = fileId /\ recommendations.of = fileId
        /\ \E i \in DOMAIN fuCalls :
              fuCalls[i].file_id = fileId /\ fuCalls[i].file = uploadedFile

\* C28 as stated: some step panel is always rendered: currentStep = 'preview'
\* implies uploadedFile is set, currentStep = 'analysis' implies loading, and
\* currentStep = 'results' implies analysisData and recommendations are set.
C28_PanelRendered ==
    /\ currentStep = "preview" => uploadedFile # NoFile
    /\ currentStep = "analysis" => loading = TRUE
    /\ currentStep = "results" => Truthy(analysisData) /\ Truthy(recommendations)

====
